---- MODULE Spec2Model ----
(***************************************************************************)
(* Job lifecycle of the solar site-suitability platform.                   *)
(*                                                                         *)
(* The state is the analysis_jobs table (models/project.py), the broker    *)
(* queue that create_and_queue_job feeds (api/services/analysis_service.py)*)
(* the results bucket written by process_mcda_job (mcda_engine.py) and,    *)
(* for every Celery worker, the position of run_mcda_analysis              *)
(* (workers/tasks.py) together with the worker's SQLAlchemy session.       *)
(* The areas_of_interest table (models/project.py) is written by           *)
(* create_or_update_aoi (api/services/project_service.py).                 *)
(*                                                                         *)
(* The raster computation of process_mcda_job (steps 2 to 9 of             *)
(* workers/geoprocessing/mcda_engine.py) is modelled pixel by pixel on a   *)
(* small grid under its own specification, SpecEngine.  Scores are counted *)
(* in units of 1/20000 point: a normalized value in points times a weight  *)
(* in units of 0.005 points.                                               *)
(*                                                                         *)
(* Weights are counted in units of 0.005 points, so 100 points are 20000   *)
(* units and the admission tolerance of 0.01 is 2 units.                   *)
(***************************************************************************)
EXTENDS Integers, FiniteSets, Sequences, TLC

\* ------------------------------------------------------------------ bounds
MaxJobs == 1          \* job rows ever inserted
MaxWorkers == 2       \* worker processes consuming the queue
MaxDuplicates == 2    \* messages the broker delivers again
MaxProjects == 2      \* project rows
MaxAois == 2          \* area-of-interest rows ever inserted
GridPixels == 2       \* pixels of the analysis grid
MaxClients == 2       \* create_or_update_aoi calls in progress at once

JobIds == 1..MaxJobs
Workers == 1..MaxWorkers
\* Projects are created beforehand (create_project); their rows are not written
\* by any operation below.
ProjectIds == 1..MaxProjects
AoiIds == 1..MaxAois
\* API sessions that may run create_or_update_aoi at the same time
Clients == 1..MaxClients

\* --------------------------------------------------------------- constants
TargetSum == 20000    \* the literal 100 of the admission check
Tolerance == 2        \* the literal 0.01 of the admission check
MAX_AOI_AREA_KM2 == 10000      \* Settings.MAX_AOI_AREA_KM2
KM2_PER_DEG2_X100 == 1239214   \* 111.32 * 111.32 = 12392.1424, in hundredths

\* JobStatus (models/project.py)
PENDING == "PENDING"
RUNNING == "RUNNING"
COMPLETE == "COMPLETE"
FAILED == "FAILED"
JobStatus == {PENDING, RUNNING, COMPLETE, FAILED}
Terminal == {COMPLETE, FAILED}

\* A nullable column holds NULL or a non-empty tuple.
NULL == <<>>
\* str(e) stored in error_log
Str(e) == <<e>>
\* result_url returned by the engine: s3://<results bucket>/results/mcda_result_<id>.tif
ResultUrl(j) == <<"results/mcda_result", j>>
\* the statistics dictionary returned by the engine for job j
Statistics(j) == <<"statistics", j>>

\* Factor names process_mcda_job normalizes
KnownFactors == {"ghi", "slope", "grid_dist", "road_dist"}

\* Weight mappings a client may submit (units of 0.005 points).  Sums exactly
\* 0.01 away from 100 are not drawn: binary floating point decides those by
\* rounding.
WeightMenu ==
    { [ghi |-> 8000, slope |-> 5000, grid_dist |-> 4000, road_dist |-> 3000],
      [ghi |-> 20001],
      [ghi |-> 12000, slope |-> 7800],
      [ghi |-> 20003],
      [ghi |-> 12000, wind |-> 8000],
      [ghi |-> 24000, slope |-> -4000] }

\* AOI names a client may use
AoiNames == {"site"}

\* AOI polygons a client may draw, by their planar area geom.area in hundredths
\* of a square degree: 0.01 and 1 square degree.
SmallGeom == 1
HugeGeom == 100
GeomMenu == {SmallGeom, HugeGeom}

\* area_km2 = geom.area * 111.32 * 111.32, to the whole square kilometre
AreaKm2(g) == (g * KM2_PER_DEG2_X100) \div 10000

Abs(x) == IF x < 0 THEN 0 - x ELSE x

\* sum(data.weights_json.values())
RECURSIVE SumOver(_, _)
SumOver(f, keys) ==
    IF keys = {} THEN 0
    ELSE LET k == CHOOSE x \in keys : TRUE
         IN  f[k] + SumOver(f, keys \ {k})

SumValues(f) == SumOver(f, DOMAIN f)

VARIABLES
    jobs,        \* analysis_jobs: job id -> row, for the rows that exist
    nextId,      \* next primary key of analysis_jobs
    queue,       \* broker: job id -> messages waiting for a worker
    dups,        \* messages the broker has put back so far
    uploaded,    \* results bucket: job ids whose result object exists
    resp,        \* last admission request and its outcome
    pc,          \* worker -> position in run_mcda_analysis
    task,        \* worker -> job_id argument of the running task
    ses,         \* worker -> attributes of job loaded in its session
    exc,         \* worker -> exception being handled
    terminated,  \* job ids whose status has changed into COMPLETE/FAILED (history)
    aois,        \* areas_of_interest: AOI id -> row
    nextAoi,     \* next primary key of areas_of_interest
    aoiCalls,    \* client -> its create_or_update_aoi call in progress
    polled,      \* last get_job_results request and what it returned
    cancelled    \* job ids deleted while their row was RUNNING (history)

workerVars == <<pc, task, ses, exc>>

catalogVars == <<aois, nextAoi, aoiCalls>>

\* process_mcda_job, for the job it is computing
VARIABLES
    epc,               \* position in process_mcda_job and its caller
    ejob,              \* status, weights_json and constraints_json of the job
    lake,              \* the source rasters of the data lake under the AOI
    rasters,           \* the clipped layers: name -> array over the grid
    constraint_mask,   \* boolean array, TRUE = excluded
    normalized_layers, \* factor name -> array of 0..100 values
    final_map,         \* the score array
    statistics         \* the statistics dictionary

engineVars == <<epc, ejob, lake, rasters, constraint_mask, normalized_layers,
                final_map, statistics>>

lifecycleVars == <<jobs, nextId, queue, dups, uploaded, resp, pc, task, ses,
                   exc, terminated, aois, nextAoi, aoiCalls, polled,
                   cancelled>>

vars == <<lifecycleVars, engineVars>>

\* An expired (or never loaded) instance has no loaded attribute.
Expired == <<>>

NoRequest == [weights |-> <<>>, result |-> "none", job_id |-> 0]

\* get_job_results returned None / nothing was asked yet
None == <<>>
NoPoll == [job_id |-> 0, result |-> None]

\* No create_or_update_aoi call in progress
NoCall == [at |-> "idle"]

\* No job is being computed.
EngineIdle ==
    /\ epc = "idle"
    /\ ejob = <<>>
    /\ lake = <<>>
    /\ rasters = <<>>
    /\ constraint_mask = <<>>
    /\ normalized_layers = <<>>
    /\ final_map = <<>>
    /\ statistics = <<>>

Init ==
    /\ EngineIdle
    /\ jobs = <<>>
    /\ nextId = 1
    /\ queue = [j \in JobIds |-> 0]
    /\ dups = 0
    /\ uploaded = {}
    /\ resp = NoRequest
    /\ pc = [w \in Workers |-> "idle"]
    /\ task = [w \in Workers |-> 0]
    /\ ses = [w \in Workers |-> Expired]
    /\ exc = [w \in Workers |-> "none"]
    /\ terminated = {}
    /\ aois = <<>>
    /\ nextAoi = 1
    /\ aoiCalls = [c \in Clients |-> NoCall]
    /\ polled = NoPoll
    /\ cancelled = {}

\* ------------------------------------------------------------------- AOIs

\* AreaOfInterest rows matching project_id and name
ExistingAoi(p, n) ==
    {a \in DOMAIN aois : aois[a].project_id = p /\ aois[a].name = n}

\* create_or_update_aoi, run with no other AOI call in between: the first
\* matching row gets the new geometry and area, or a new row is inserted; the
\* area is stored whatever its size
create_or_update_aoi(p, n, g) ==
    /\ IF ExistingAoi(p, n) # {}
       THEN LET a == CHOOSE x \in ExistingAoi(p, n) :
                        \A y \in ExistingAoi(p, n) : x <= y
            IN  /\ aois' = [aois EXCEPT ![a].area_km2 = AreaKm2(g)]
                /\ nextAoi' = nextAoi
       ELSE /\ nextAoi <= MaxAois
            /\ aois' = [a \in DOMAIN aois \cup {nextAoi} |->
                          IF a = nextAoi
                          THEN [project_id |-> p, name |-> n,
                                area_km2 |-> AreaKm2(g)]
                          ELSE aois[a]]
            /\ nextAoi' = nextAoi + 1
    /\ UNCHANGED <<jobs, nextId, queue, dups, uploaded, resp, workerVars,
                   terminated, aoiCalls, polled, cancelled, engineVars>>

\* create_or_update_aoi in the session of client c, first half: the area is
\* computed and the existing row is queried (0 = no row)
AoiQuery(c, p, n, g) ==
    /\ aoiCalls[c].at = "idle"
    /\ aoiCalls' =
         [aoiCalls EXCEPT ![c] =
            [at |-> "commit", project_id |-> p, name |-> n,
             area_km2 |-> AreaKm2(g),
             existing_aoi |->
                 IF ExistingAoi(p, n) # {}
                 THEN CHOOSE x \in ExistingAoi(p, n) :
                          \A y \in ExistingAoi(p, n) : x <= y
                 ELSE 0]]
    /\ UNCHANGED <<jobs, nextId, queue, dups, uploaded, resp, workerVars,
                   terminated, aois, nextAoi, polled, cancelled, engineVars>>

\* second half: the row found is updated, or a new row is added, and the
\* session commits; no constraint of the table compares names
AoiCommit(c) ==
    /\ aoiCalls[c].at = "commit"
    /\ LET call == aoiCalls[c]
       IN  IF call.existing_aoi # 0
           THEN /\ aois' = [aois EXCEPT
                              ![call.existing_aoi].area_km2 = call.area_km2]
                /\ nextAoi' = nextAoi
           ELSE /\ nextAoi <= MaxAois
                /\ aois' = [a \in DOMAIN aois \cup {nextAoi} |->
                              IF a = nextAoi
                              THEN [project_id |-> call.project_id,
                                    name |-> call.name,
                                    area_km2 |-> call.area_km2]
                              ELSE aois[a]]
                /\ nextAoi' = nextAoi + 1
    /\ aoiCalls' = [aoiCalls EXCEPT ![c] = NoCall]
    /\ UNCHANGED <<jobs, nextId, queue, dups, uploaded, resp, workerVars,
                   terminated, polled, cancelled, engineVars>>

\* ---------------------------------------------------------------- admission

\* The check without abs(): only sums above 100 are rejected.
WeightsRejected_NoAbs(w) == SumValues(w) - TargetSum > Tolerance

\* abs(total_weight - 100) > 0.01
WeightsRejected(w) == Abs(SumValues(w) - TargetSum) > Tolerance

\* AnalysisJob(project_id=..., aoi_id=..., status=PENDING, weights_json=...)
\* with the nullable columns unset
NewJob(p, a, w) ==
    [project_id |-> p, aoi_id |-> a, status |-> PENDING, weights_json |-> w,
     started_at |-> NULL, completed_at |-> NULL, result_url |-> NULL,
     stats_json |-> NULL, error_log |-> NULL]

\* create_and_queue_job: validate the weights, insert and commit the row (the
\* foreign key aoi_id is checked by the database at the commit), then
\* .delay(job.id)
create_and_queue_job(p, a, w) ==
    /\ IF WeightsRejected(w)
       THEN /\ resp' = [weights |-> w, result |-> "ValueError", job_id |-> 0]
            /\ UNCHANGED <<jobs, nextId, queue>>
       ELSE IF a \notin DOMAIN aois
       THEN /\ resp' = [weights |-> w, result |-> "IntegrityError", job_id |-> 0]
            /\ UNCHANGED <<jobs, nextId, queue>>
       ELSE /\ nextId <= MaxJobs
            /\ jobs' = [j \in DOMAIN jobs \cup {nextId} |->
                          IF j = nextId THEN NewJob(p, a, w) ELSE jobs[j]]
            /\ nextId' = nextId + 1
            /\ queue' = [queue EXCEPT ![nextId] = @ + 1]
            /\ resp' = [weights |-> w, result |-> "created", job_id |-> nextId]
    /\ UNCHANGED <<dups, uploaded, workerVars, terminated, catalogVars, polled,
                   cancelled, engineVars>>

\* delete_job: the row is deleted whatever its status; no task is cancelled
delete_job(j) ==
    /\ j \in DOMAIN jobs
    /\ jobs' = [k \in DOMAIN jobs \ {j} |-> jobs[k]]
    /\ cancelled' = IF jobs[j].status = RUNNING THEN cancelled \cup {j}
                    ELSE cancelled
    /\ UNCHANGED <<nextId, queue, dups, uploaded, resp, workerVars, terminated,
                   catalogVars, polled, engineVars>>

\* The version without the status test: whatever the row holds is returned.
JobResults_AnyStatus(j) ==
    IF j \notin DOMAIN jobs THEN None
    ELSE [job_id |-> j, status |-> jobs[j].status,
          result_geotiff_url |-> jobs[j].result_url,
          statistics |-> jobs[j].stats_json]

\* What get_job_results returns for job_id j: None unless the row exists and is
\* COMPLETE
JobResults(j) ==
    IF j \notin DOMAIN jobs \/ jobs[j].status # COMPLETE THEN None
    ELSE [job_id |-> j, status |-> jobs[j].status,
          result_geotiff_url |-> jobs[j].result_url,
          statistics |-> jobs[j].stats_json]

\* get_job_results: a read of the row; the route answers 404 on None
get_job_results(j) ==
    /\ polled' = [job_id |-> j, result |-> JobResults(j)]
    /\ UNCHANGED <<jobs, nextId, queue, dups, uploaded, resp, workerVars,
                   terminated, catalogVars, cancelled, engineVars>>

\* ------------------------------------------------------------------- broker

\* At-least-once delivery: the broker may hand out again the message of a job
\* that was enqueued.
Redeliver(j) ==
    /\ dups < MaxDuplicates
    /\ j < nextId
    /\ queue' = [queue EXCEPT ![j] = @ + 1]
    /\ dups' = dups + 1
    /\ UNCHANGED <<jobs, nextId, uploaded, resp, workerVars, terminated,
                   catalogVars, polled, cancelled, engineVars>>

\* A worker takes a message; Celery acknowledges it on receipt (task_acks_late
\* is not set) and starts run_mcda_analysis(job_id) with a fresh session.
Deliver(w, j) ==
    /\ pc[w] = "idle"
    /\ queue[j] > 0
    /\ queue' = [queue EXCEPT ![j] = @ - 1]
    /\ pc' = [pc EXCEPT ![w] = "query"]
    /\ task' = [task EXCEPT ![w] = j]
    /\ ses' = [ses EXCEPT ![w] = Expired]
    /\ exc' = [exc EXCEPT ![w] = "none"]
    /\ UNCHANGED <<jobs, nextId, dups, uploaded, resp, terminated,
                   catalogVars, polled, cancelled, engineVars>>

\* ------------------------------------------------------------ the ORM session

\* Columns of `assigned` that the unit of work writes: those whose new value
\* differs from the value loaded in the session (all of them when expired).
Dirty(w, assigned) ==
    {c \in DOMAIN assigned : c \notin DOMAIN ses[w] \/ ses[w][c] # assigned[c]}

\* db.commit() after the assignments `assigned` to job: "ok", or "stale" when
\* the UPDATE matches no row (StaleDataError).
CommitResult(w, assigned) ==
    IF Dirty(w, assigned) = {} THEN "ok"
    ELSE IF task[w] \in DOMAIN jobs THEN "ok" ELSE "stale"

\* The table after that commit.
CommitJobs(w, assigned) ==
    IF Dirty(w, assigned) = {} \/ task[w] \notin DOMAIN jobs THEN jobs
    ELSE [jobs EXCEPT ![task[w]] =
            [c \in DOMAIN @ |->
                IF c \in Dirty(w, assigned) THEN assigned[c] ELSE @[c]]]

\* A status change of job j into COMPLETE or FAILED between the table `jobs`
\* and the table `after`.
TerminalTransition(j, after) ==
    /\ j \in DOMAIN jobs
    /\ j \in DOMAIN after
    /\ after[j].status \in Terminal
    /\ after[j].status # jobs[j].status

\* The columns run_mcda_analysis assigns; the session's copy of the others is
\* never compared.
Loaded(row) ==
    [status |-> row.status, result_url |-> row.result_url,
     stats_json |-> row.stats_json, error_log |-> row.error_log]

\* The task returns or raises: after_return closes the session.
Return(w) ==
    /\ pc' = [pc EXCEPT ![w] = "idle"]
    /\ task' = [task EXCEPT ![w] = 0]
    /\ ses' = [ses EXCEPT ![w] = Expired]
    /\ exc' = [exc EXCEPT ![w] = "none"]

\* ------------------------------------------------------- run_mcda_analysis

\* job = db.query(AnalysisJob).filter(id == job_id).first(); return if missing
QueryJob(w) ==
    /\ pc[w] = "query"
    /\ IF task[w] \in DOMAIN jobs
       THEN /\ ses' = [ses EXCEPT ![w] = Loaded(jobs[task[w]])]
            /\ pc' = [pc EXCEPT ![w] = "set_running"]
            /\ UNCHANGED <<task, exc>>
       ELSE Return(w)
    /\ UNCHANGED <<jobs, nextId, queue, dups, uploaded, resp, terminated,
                   catalogVars, polled, cancelled, engineVars>>

\* job.status = RUNNING; db.commit()
SetRunning(w) ==
    /\ pc[w] = "set_running"
    /\ LET assigned == [status |-> RUNNING]
       IN  /\ jobs' = CommitJobs(w, assigned)
           /\ IF CommitResult(w, assigned) = "ok"
              THEN /\ pc' = [pc EXCEPT ![w] = "engine"]
                   /\ exc' = exc
              ELSE /\ pc' = [pc EXCEPT ![w] = "except"]
                   /\ exc' = [exc EXCEPT ![w] = "StaleDataError"]
    /\ ses' = [ses EXCEPT ![w] = Expired]
    /\ UNCHANGED <<nextId, queue, dups, uploaded, resp, task, terminated,
                   catalogVars, polled, cancelled, engineVars>>

\* process_mcda_job is entered: job.id reloads the expired row, then the AOI is
\* loaded (the foreign key aoi_id keeps it present while the job row exists).
EngineLoadAoi(w) ==
    /\ pc[w] = "engine"
    /\ IF task[w] \in DOMAIN jobs
       THEN /\ ses' = [ses EXCEPT ![w] = Loaded(jobs[task[w]])]
            /\ pc' = [pc EXCEPT ![w] = "clip"]
            /\ exc' = exc
       ELSE /\ ses' = ses
            /\ pc' = [pc EXCEPT ![w] = "except"]
            /\ exc' = [exc EXCEPT ![w] = "ObjectDeletedError"]
    /\ UNCHANGED <<jobs, nextId, queue, dups, uploaded, resp, task,
                   terminated, catalogVars, polled, cancelled, engineVars>>

\* A stage of the engine that returns or raises `error`.
EngineStage(w, at, next, error) ==
    /\ pc[w] = at
    /\ \/ /\ pc' = [pc EXCEPT ![w] = next]
          /\ exc' = exc
       \/ /\ pc' = [pc EXCEPT ![w] = "except"]
          /\ exc' = [exc EXCEPT ![w] = error]

\* steps 2-3: clip the source rasters from the data lake, derive slope
EngineClip(w) ==
    /\ EngineStage(w, "clip", "overlay", "read failed")
    /\ UNCHANGED <<jobs, nextId, queue, dups, uploaded, resp, task, ses,
                   terminated, catalogVars, polled, cancelled, engineVars>>

\* steps 4-7: constraint mask, normalization, weighted overlay
EngineOverlay(w) ==
    /\ EngineStage(w, "overlay", "upload", "overlay failed")
    /\ UNCHANGED <<jobs, nextId, queue, dups, uploaded, resp, task, ses,
                   terminated, catalogVars, polled, cancelled, engineVars>>

\* steps 8-10: write the GeoTIFF, upload it, compute statistics, return
EngineUpload(w) ==
    /\ EngineStage(w, "upload", "set_complete", "write failed")
    /\ uploaded' = IF pc'[w] = "set_complete" THEN uploaded \cup {task[w]}
                   ELSE uploaded
    /\ UNCHANGED <<jobs, nextId, queue, dups, resp, task, ses, terminated,
                   catalogVars, polled, cancelled, engineVars>>

\* job.status = COMPLETE; result_url, stats_json = result; db.commit()
SetComplete(w) ==
    /\ pc[w] = "set_complete"
    /\ LET assigned == [status |-> COMPLETE,
                        result_url |-> ResultUrl(task[w]),
                        stats_json |-> Statistics(task[w])]
       IN  /\ jobs' = CommitJobs(w, assigned)
           /\ terminated' =
                IF TerminalTransition(task[w], CommitJobs(w, assigned))
                THEN terminated \cup {task[w]} ELSE terminated
           /\ IF CommitResult(w, assigned) = "ok"
              THEN Return(w)
              ELSE /\ pc' = [pc EXCEPT ![w] = "except"]
                   /\ exc' = [exc EXCEPT ![w] = "StaleDataError"]
                   /\ ses' = [ses EXCEPT ![w] = Expired]
                   /\ task' = task
    /\ UNCHANGED <<nextId, queue, dups, uploaded, resp, catalogVars, polled,
                   cancelled, engineVars>>

\* except Exception as e: job.status = FAILED; job.error_log = str(e);
\* db.commit(); raise
HandleError(w) ==
    /\ pc[w] = "except"
    /\ LET assigned == [status |-> FAILED, error_log |-> Str(exc[w])]
       IN  /\ jobs' = CommitJobs(w, assigned)
           /\ terminated' =
                IF TerminalTransition(task[w], CommitJobs(w, assigned))
                THEN terminated \cup {task[w]} ELSE terminated
    /\ Return(w)
    /\ UNCHANGED <<nextId, queue, dups, uploaded, resp, catalogVars, polled,
                   cancelled, engineVars>>

\* ------------------------------------------------------------- time limits

InEngine == {"engine", "clip", "overlay", "upload"}

\* task_soft_time_limit: SoftTimeLimitExceeded is raised inside the task
SoftTimeLimit(w) ==
    /\ pc[w] \in InEngine
    /\ pc' = [pc EXCEPT ![w] = "except"]
    /\ exc' = [exc EXCEPT ![w] = "SoftTimeLimitExceeded"]
    /\ UNCHANGED <<jobs, nextId, queue, dups, uploaded, resp, task, ses,
                   terminated, catalogVars, polled, cancelled, engineVars>>

\* task_time_limit: the worker process running the engine is killed and
\* replaced; nothing is committed and the acknowledged message is gone
HardTimeLimit(w) ==
    /\ pc[w] \in InEngine
    /\ Return(w)
    /\ UNCHANGED <<jobs, nextId, queue, dups, uploaded, resp, terminated,
                   catalogVars, polled, cancelled, engineVars>>

\* ------------------------------------------------------------ specification

WorkerStep(w) ==
    \/ QueryJob(w)
    \/ SetRunning(w)
    \/ EngineLoadAoi(w)
    \/ EngineClip(w)
    \/ EngineOverlay(w)
    \/ EngineUpload(w)
    \/ SetComplete(w)
    \/ HandleError(w)

\* The lifecycle is explored with one project and small AOIs; the admission
\* specification below draws every project, AOI and polygon.
Next ==
    \/ \E n \in AoiNames : create_or_update_aoi(1, n, SmallGeom)
    \/ \E a \in AoiIds, w \in WeightMenu : create_and_queue_job(1, a, w)
    \/ \E j \in JobIds : delete_job(j)
    \/ \E j \in JobIds : get_job_results(j)
    \/ \E j \in JobIds : Redeliver(j)
    \/ \E w \in Workers, j \in JobIds : Deliver(w, j)
    \/ \E w \in Workers : WorkerStep(w)
    \/ \E w \in Workers : SoftTimeLimit(w)
    \/ \E w \in Workers : HardTimeLimit(w)

Spec == Init /\ [][Next]_vars

\* Workers that are alive keep running and waiting messages are delivered; the
\* clients, the broker's duplicates and the time limits are not obliged to act.
SpecFair ==
    /\ Spec
    /\ \A w \in Workers : WF_vars(WorkerStep(w))
    /\ \A w \in Workers : WF_vars(\E j \in JobIds : Deliver(w, j))

\* The API alone, no worker consuming the queue.
NextAdmission ==
    \/ \E p \in ProjectIds, n \in AoiNames, g \in GeomMenu :
          create_or_update_aoi(p, n, g)
    \/ \E p \in ProjectIds, a \in AoiIds, w \in WeightMenu :
          create_and_queue_job(p, a, w)
    \/ \E j \in JobIds : delete_job(j)
    \/ \E j \in JobIds : get_job_results(j)

SpecAdmission == Init /\ [][NextAdmission]_vars

\* create_or_update_aoi calls of several API sessions, interleaved.
NextAoi ==
    \/ \E c \in Clients, p \in ProjectIds, n \in AoiNames, g \in GeomMenu :
          AoiQuery(c, p, n, g)
    \/ \E c \in Clients : AoiCommit(c)

SpecAoi == Init /\ [][NextAoi]_vars

\* ------------------------------------------------- process_mcda_job, pixels

\* nodata_val of the output; also the no-data value of the clipped layers
nodata_val == -9999

\* A value of x points in the units of final_map
Points(x) == x * TargetSum

Pixels == 1..GridPixels

\* Layer values at one pixel, as the clipped arrays hold them: GHI in
\* kWh/m2/year, slope in degrees, distances in metres, land-cover class.
PixelMenu ==
    { [ghi_data |-> 2500, slope_data |-> 0, grid_dist_data |-> 0,
       road_dist_data |-> 0, lulc_data |-> 10],
      [ghi_data |-> 1750, slope_data |-> 5, grid_dist_data |-> 5000,
       road_dist_data |-> 2500, lulc_data |-> 10],
      [ghi_data |-> 2500, slope_data |-> 15, grid_dist_data |-> 0,
       road_dist_data |-> 0, lulc_data |-> 50],
      [ghi_data |-> 1000, slope_data |-> 0, grid_dist_data |-> 12000,
       road_dist_data |-> 6000, lulc_data |-> 10],
      [ghi_data |-> nodata_val, slope_data |-> 0, grid_dist_data |-> 0,
       road_dist_data |-> 0, lulc_data |-> 10],
      [ghi_data |-> 1000, slope_data |-> 10, grid_dist_data |-> 10000,
       road_dist_data |-> 5000, lulc_data |-> 10],
      [ghi_data |-> nodata_val, slope_data |-> nodata_val,
       grid_dist_data |-> nodata_val, road_dist_data |-> nodata_val,
       lulc_data |-> nodata_val] }

LayerNames ==
    {"ghi_data", "slope_data", "grid_dist_data", "road_dist_data", "lulc_data"}

\* constraints_json a client may submit
ConstraintMenu ==
    { <<>>,
      [slope_gt |-> 10],
      [lulc_exclude |-> {50, 80}],
      [grid_dist_gt |-> 8000],
      [road_dist_gt |-> 3000] }

\* weights_json of the jobs that reach the engine: the submissions that pass
\* the admission check
EngineWeightMenu ==
    {w \in WeightMenu \cup
            { [slope |-> 20000],
              [ghi |-> 20000, road_dist |-> 0],
              [ghi |-> 2019800, slope |-> -1999800] } : ~WeightsRejected(w)}

\* The normalize_array call of each factor: its layer, clip range and direction
FactorSpec ==
    [ghi       |-> [layer |-> "ghi_data", min_val |-> 1000, max_val |-> 2500,
                    invert |-> FALSE],
     slope     |-> [layer |-> "slope_data", min_val |-> 0, max_val |-> 10,
                    invert |-> TRUE],
     grid_dist |-> [layer |-> "grid_dist_data", min_val |-> 0,
                    max_val |-> 10000, invert |-> TRUE],
     road_dist |-> [layer |-> "road_dist_data", min_val |-> 0,
                    max_val |-> 5000, invert |-> TRUE]]

\* np.clip(x, min_val, max_val)
Clip(x, min_val, max_val) ==
    IF x < min_val THEN min_val ELSE IF x > max_val THEN max_val ELSE x

\* The normalization that never inverts.
normalize_array_NoInvert(arr, min_val, max_val, invert) ==
    [i \in DOMAIN arr |->
        (100 * (Clip(arr[i], min_val, max_val) - min_val))
            \div (max_val - min_val)]

\* normalize_array: clip, scale to 0..1, invert, scale to 0..100.  No value of
\* the array is treated as no-data.  The menu values make the quotient whole.
normalize_array(arr, min_val, max_val, invert) ==
    [i \in DOMAIN arr |->
        LET norm == (100 * (Clip(arr[i], min_val, max_val) - min_val))
                        \div (max_val - min_val)
        IN  IF invert THEN 100 - norm ELSE norm]

\* process_mcda_job is called for a job that passed admission and whose row was
\* committed RUNNING; the AOI either overlaps the source rasters, which then
\* hold some values under it, or lies outside their coverage.
InitEngine ==
    /\ jobs = <<>>
    /\ nextId = 1
    /\ queue = [j \in JobIds |-> 0]
    /\ dups = 0
    /\ uploaded = {}
    /\ resp = NoRequest
    /\ pc = [w \in Workers |-> "idle"]
    /\ task = [w \in Workers |-> 0]
    /\ ses = [w \in Workers |-> Expired]
    /\ exc = [w \in Workers |-> "none"]
    /\ terminated = {}
    /\ aois = <<>>
    /\ nextAoi = 1
    /\ aoiCalls = [c \in Clients |-> NoCall]
    /\ polled = NoPoll
    /\ cancelled = {}
    /\ epc = "clip"
    /\ \E w \in EngineWeightMenu, c \in ConstraintMenu :
          ejob = [status |-> RUNNING, weights_json |-> w,
                  constraints_json |-> c]
    /\ \/ \E px \in [Pixels -> PixelMenu] :
             lake = [overlaps |-> TRUE,
                     layers |-> [l \in LayerNames |->
                                   [i \in Pixels |-> px[i][l]]]]
       \/ lake = [overlaps |-> FALSE,
                  layers |-> [l \in LayerNames |->
                                [i \in Pixels |-> nodata_val]]]
    /\ rasters = <<>>
    /\ constraint_mask = <<>>
    /\ normalized_layers = <<>>
    /\ final_map = <<>>
    /\ statistics = <<>>

\* steps 2 and 3: all five source rasters are clipped to the AOI, whatever the
\* weights and constraints name, and the slope is derived (slope_data stands
\* for the derived array).  rasterio.mask.mask(..., crop=True) raises
\* ValueError("Input shapes do not overlap raster.") for an AOI outside the
\* coverage.
ClipRasters ==
    /\ epc = "clip"
    /\ IF lake.overlaps
       THEN /\ rasters' = lake.layers
            /\ epc' = "mask"
       ELSE /\ rasters' = rasters
            /\ epc' = "raised"
    /\ UNCHANGED <<lifecycleVars, ejob, lake, constraint_mask,
                   normalized_layers, final_map, statistics>>

\* step 4: the mask is the union of the declared slope_gt, lulc_exclude and
\* grid_dist_gt exclusions
CreateConstraintMask ==
    /\ epc = "mask"
    /\ LET constraints == ejob.constraints_json
       IN  constraint_mask' =
             [i \in Pixels |->
                \/ /\ "slope_gt" \in DOMAIN constraints
                   /\ rasters.slope_data[i] > constraints.slope_gt
                \/ /\ "lulc_exclude" \in DOMAIN constraints
                   /\ rasters.lulc_data[i] \in constraints.lulc_exclude
                \/ /\ "grid_dist_gt" \in DOMAIN constraints
                   /\ rasters.grid_dist_data[i] > constraints.grid_dist_gt]
    /\ epc' = "normalize"
    /\ UNCHANGED <<lifecycleVars, ejob, lake, rasters, normalized_layers, final_map,
                   statistics>>

\* step 5: one normalized layer per known factor named in the weights
NormalizeFactors ==
    /\ epc = "normalize"
    /\ normalized_layers' =
         [k \in DOMAIN FactorSpec \cap DOMAIN ejob.weights_json |->
            normalize_array(rasters[FactorSpec[k].layer], FactorSpec[k].min_val,
                            FactorSpec[k].max_val, FactorSpec[k].invert)]
    /\ epc' = "overlay"
    /\ UNCHANGED <<lifecycleVars, ejob, lake, rasters, constraint_mask, final_map,
                   statistics>>

\* sum over the weighted layers of normalized value * weight, at pixel i
RECURSIVE Overlay(_, _, _, _)
Overlay(layers, weights, names, i) ==
    IF names = {} THEN 0
    ELSE LET k == CHOOSE x \in names : TRUE
         IN  layers[k][i] * weights[k] + Overlay(layers, weights, names \ {k}, i)

\* step 6: final_map += normalized_layers[name] * (weight / 100.0) for every
\* weight whose name has a normalized layer
WeightedOverlay ==
    /\ epc = "overlay"
    /\ final_map' =
         [i \in Pixels |->
            Overlay(normalized_layers, ejob.weights_json,
                    DOMAIN ejob.weights_json \cap DOMAIN normalized_layers, i)]
    /\ epc' = "apply"
    /\ UNCHANGED <<lifecycleVars, ejob, lake, rasters, constraint_mask,
                   normalized_layers, statistics>>

\* The excluded pixels keep their score.
ApplyMask_Skip(map, mask) == map

\* final_map[constraint_mask] = nodata_val
ApplyMask(map, mask) ==
    [i \in DOMAIN map |-> IF mask[i] THEN Points(nodata_val) ELSE map[i]]

\* step 7
ApplyConstraints ==
    /\ epc = "apply"
    /\ final_map' = ApplyMask(final_map, constraint_mask)
    /\ epc' = "statistics"
    /\ UNCHANGED <<lifecycleVars, ejob, lake, rasters, constraint_mask,
                   normalized_layers, statistics>>

RECURSIVE SumAt(_, _)
SumAt(map, idx) ==
    IF idx = {} THEN 0
    ELSE LET i == CHOOSE x \in idx : TRUE
         IN  map[i] + SumAt(map, idx \ {i})

\* Largest r in lo..hi-1 with r * r <= n, for lo * lo <= n < hi * hi
RECURSIVE IsqrtIn(_, _, _)
IsqrtIn(n, lo, hi) ==
    IF hi - lo <= 1 THEN lo
    ELSE LET mid == (lo + hi) \div 2
         IN  IF mid * mid <= n THEN IsqrtIn(n, mid, hi) ELSE IsqrtIn(n, lo, mid)

RECURSIVE SumSquares(_, _, _)
SumSquares(map, idx, mean) ==
    IF idx = {} THEN 0
    ELSE LET i == CHOOSE x \in idx : TRUE
             d == (map[i] - mean) \div TargetSum
         IN  d * d + SumSquares(map, idx \ {i}, mean)

\* np.std(valid_data), to the whole point
StdDev(map, idx) ==
    LET mean == SumAt(map, idx) \div Cardinality(idx)
    IN  Points(IsqrtIn(SumSquares(map, idx, mean) \div Cardinality(idx),
                       0, 46340))

\* Every pixel counts as valid, the no-data ones too.
ValidData_All(map) == DOMAIN map

\* valid_data = final_map[final_map != nodata_val], by its pixels
ValidData(map) == {i \in DOMAIN map : map[i] # Points(nodata_val)}

\* step 9: the statistics dictionary
CalculateStatistics ==
    /\ epc = "statistics"
    /\ LET valid == ValidData(final_map)
       IN  statistics' =
             [total_pixels |-> GridPixels,
              valid_pixels |-> Cardinality(valid),
              excluded_pixels |->
                  Cardinality({i \in Pixels : constraint_mask[i]}),
              mean_suitability |->
                  IF valid # {} THEN SumAt(final_map, valid) \div Cardinality(valid)
                  ELSE 0,
              max_suitability |->
                  IF valid # {}
                  THEN final_map[CHOOSE i \in valid :
                                   \A k \in valid : final_map[k] <= final_map[i]]
                  ELSE 0,
              min_suitability |->
                  IF valid # {}
                  THEN final_map[CHOOSE i \in valid :
                                   \A k \in valid : final_map[i] <= final_map[k]]
                  ELSE 0,
              std_suitability |->
                  IF valid # {} THEN StdDev(final_map, valid) ELSE 0]
    /\ epc' = "done"
    /\ UNCHANGED <<lifecycleVars, ejob, lake, rasters, constraint_mask,
                   normalized_layers, final_map>>

\* run_mcda_analysis after process_mcda_job returned: job.status = COMPLETE;
\* db.commit()
TaskCommitComplete ==
    /\ epc = "done"
    /\ ejob' = [ejob EXCEPT !.status = COMPLETE]
    /\ epc' = "complete"
    /\ UNCHANGED <<lifecycleVars, lake, rasters, constraint_mask,
                   normalized_layers, final_map, statistics>>

\* run_mcda_analysis after process_mcda_job raised: job.status = FAILED;
\* db.commit(); raise
TaskCommitFailed ==
    /\ epc = "raised"
    /\ ejob' = [ejob EXCEPT !.status = FAILED]
    /\ epc' = "failed"
    /\ UNCHANGED <<lifecycleVars, lake, rasters, constraint_mask,
                   normalized_layers, final_map, statistics>>

NextEngine ==
    \/ ClipRasters
    \/ CreateConstraintMask
    \/ NormalizeFactors
    \/ WeightedOverlay
    \/ ApplyConstraints
    \/ CalculateStatistics
    \/ TaskCommitComplete
    \/ TaskCommitFailed

SpecEngine == InitEngine /\ [][NextEngine]_vars

\* ------------------------------------------------------------------ claims

\* Positions inside process_mcda_job, after the job row was reloaded.
Executing == {"clip", "overlay", "upload"}

\* C1: no two workers are executing process_mcda_job for the same job id at the
\* same time.
C1_OneExecutionPerJob ==
    \A w1, w2 \in Workers :
        (w1 # w2 /\ pc[w1] \in Executing /\ pc[w2] \in Executing)
            => task[w1] # task[w2]

\* C2: no step changes a job's status from COMPLETE or FAILED to another value,
\* nor from RUNNING back to PENDING.
C2_StatusOnlyAdvances ==
    [][\A j \in DOMAIN jobs \cap DOMAIN jobs' :
          /\ jobs[j].status \in Terminal => jobs'[j].status = jobs[j].status
          /\ jobs[j].status = RUNNING => jobs'[j].status # PENDING]_vars

\* C3: a task that loaded its job with a status other than PENDING returns
\* without entering the engine and leaves the table unchanged.
C3_NonPendingDeliveryIsNoOp ==
    [][\A w \in Workers :
          (/\ pc[w] = "set_running"
           /\ ses[w].status # PENDING
           /\ pc'[w] # pc[w])
              => (pc'[w] = "idle" /\ jobs' = jobs)]_vars

\* C4: over its whole life a job makes one transition into a terminal status:
\* once its status has changed into COMPLETE or FAILED, no later step changes
\* its status into COMPLETE or FAILED again.
C4_OneTerminalTransition ==
    [][\A j \in JobIds :
          j \in terminated => ~TerminalTransition(j, jobs')]_vars

\* C5: in every committed row, result_url and stats_json are both set when the
\* status is COMPLETE and both unset otherwise.
C5_ResultIffComplete ==
    \A j \in DOMAIN jobs :
        IF jobs[j].status = COMPLETE
        THEN jobs[j].result_url # NULL /\ jobs[j].stats_json # NULL
        ELSE jobs[j].result_url = NULL /\ jobs[j].stats_json = NULL

\* C6: in every committed row, error_log is set if and only if the status is
\* FAILED.
C6_ErrorIffFailed ==
    \A j \in DOMAIN jobs :
        jobs[j].error_log # NULL <=> jobs[j].status = FAILED

\* Exceptions raised by an operation of the engine while the job is running.
EngineErrors ==
    {"read failed", "overlay failed", "write failed", "SoftTimeLimitExceeded"}

\* C7: when the handler of a failed execution finishes and the job's row still
\* exists, the row is FAILED and carries the error text; a failed execution
\* never moves on to the COMPLETE commit.
C7_FailureCommitsFailed ==
    [][\A w \in Workers :
          (pc[w] = "except" /\ exc[w] \in EngineErrors)
             => /\ pc'[w] \in {"except", "idle"}
                /\ (pc'[w] = "idle" /\ task[w] \in DOMAIN jobs')
                      => /\ jobs'[task[w]].status = FAILED
                         /\ jobs'[task[w]].error_log = Str(exc[w])]_vars

\* C8: every job that is RUNNING is eventually COMPLETE or FAILED (or deleted).
C8_RunningEventuallyTerminal ==
    \A j \in JobIds :
        (j \in DOMAIN jobs /\ jobs[j].status = RUNNING)
            ~> (j \notin DOMAIN jobs \/ jobs[j].status \in Terminal)

\* The weights do not sum to 100 within 0.01.
SumOutsideTolerance(w) ==
    \/ SumValues(w) < TargetSum - Tolerance
    \/ SumValues(w) > TargetSum + Tolerance

\* C9: a submission whose weights do not sum to 100 within 0.01 gets a
\* validation error, and the step inserts no job row and enqueues no message.
C9_BadSumRejected ==
    [][(resp' # resp /\ SumOutsideTolerance(resp'.weights))
          => /\ resp'.result = "ValueError"
             /\ jobs' = jobs
             /\ queue' = queue]_vars

\* A submission with weights summing to 99 was answered with the validation
\* error.
C9_Witness ==
    /\ resp.result = "ValueError"
    /\ DOMAIN resp.weights # {}
    /\ SumValues(resp.weights) < TargetSum - Tolerance

\* C10: no job row carries a weight for a factor outside the known set.
C10_KnownFactorsOnly ==
    \A j \in DOMAIN jobs : DOMAIN jobs[j].weights_json \subseteq KnownFactors

\* C11: every weight of a job row is >= 0 (a submission with a negative weight
\* creates no job, even when the weights sum to 100).
C11_NonNegativeWeights ==
    \A j \in DOMAIN jobs :
        \A k \in DOMAIN jobs[j].weights_json : jobs[j].weights_json[k] >= 0

\* C12: every job row references an AOI that exists and belongs to the job's
\* project.
C12_AoiBelongsToProject ==
    \A j \in DOMAIN jobs :
        /\ jobs[j].aoi_id \in DOMAIN aois
        /\ aois[jobs[j].aoi_id].project_id = jobs[j].project_id

\* C13: no step inserts a job row for an AOI whose area exceeds
\* MAX_AOI_AREA_KM2.
C13_LargeAoiNotAdmitted ==
    [][\A j \in DOMAIN jobs' \ DOMAIN jobs :
          aois[jobs'[j].aoi_id].area_km2 <= MAX_AOI_AREA_KM2]_vars

\* C14: when a worker executing a job that was cancelled while RUNNING passes
\* the next stage boundary of the engine, the job record is FAILED with the
\* error text "cancelled".
C14_CancelledAtStageBoundary ==
    [][\A w \in Workers :
          (pc[w] \in Executing /\ task[w] \in cancelled /\ pc'[w] # pc[w])
             => /\ task[w] \in DOMAIN jobs'
                /\ jobs'[task[w]].status = FAILED
                /\ jobs'[task[w]].error_log = Str("cancelled")]_vars

\* C15: get_job_results returns a result only for a job whose row exists and is
\* COMPLETE, and then the row's result URL and statistics; otherwise nothing.
C15_ResultsOnlyWhenComplete ==
    [][\A j \in JobIds :
          (polled' # polled /\ polled'.job_id = j)
             => IF j \in DOMAIN jobs /\ jobs[j].status = COMPLETE
                THEN /\ polled'.result # None
                     /\ polled'.result.result_geotiff_url = jobs[j].result_url
                     /\ polled'.result.statistics = jobs[j].stats_json
                ELSE polled'.result = None]_vars

\* A poll of a COMPLETE job was answered with its result.
C15_Witness ==
    /\ polled.result # None
    /\ polled.job_id \in DOMAIN jobs
    /\ jobs[polled.job_id].status = COMPLETE

\* C16: a message leaves the queue (is acknowledged) only when its job's row is
\* COMPLETE or FAILED.
C16_AckAfterTerminalCommit ==
    [][\A j \in JobIds :
          queue'[j] < queue[j]
             => (j \in DOMAIN jobs /\ jobs[j].status \in Terminal)]_vars

\* C17: every row that has left PENDING has started_at set and every COMPLETE
\* or FAILED row has completed_at set.
C17_TimestampsRecorded ==
    \A j \in DOMAIN jobs :
        /\ jobs[j].status # PENDING => jobs[j].started_at # NULL
        /\ jobs[j].status \in Terminal => jobs[j].completed_at # NULL

\* The known factors that carry a weight in the job.
Contributing == DOMAIN FactorSpec \cap DOMAIN ejob.weights_json

\* C18: in the finished score array, a pixel at which the layer of a weighted
\* factor is no-data is no-data.
C18_NoDataPropagates ==
    epc = "done" =>
        \A i \in Pixels :
            (\E k \in Contributing : rasters[FactorSpec[k].layer][i] = nodata_val)
                => final_map[i] = Points(nodata_val)

\* C19: from the application of the mask on, every pixel at which the mask is
\* TRUE is no-data in the score array; the steps after it do not write a score
\* back.
C19_ExcludedIsNoData ==
    epc \in {"statistics", "done", "complete"} =>
        \A i \in Pixels :
            constraint_mask[i] => final_map[i] = Points(nodata_val)

\* A finished job with an excluded pixel, whose weighted sum was a score.
C19_Witness ==
    /\ epc = "done"
    /\ \E i \in Pixels :
          /\ constraint_mask[i]
          /\ final_map[i] = Points(nodata_val)
          /\ Overlay(normalized_layers, ejob.weights_json,
                     DOMAIN ejob.weights_json \cap DOMAIN normalized_layers, i)
                > 0

\* C20: in the finished score array of an admitted job, every pixel that is not
\* no-data has a score between 0 and 100 (100 taken up to the 0.01 that
\* admission tolerates on the sum of the weights).
C20_ScoreInRange ==
    epc = "done" =>
        \A i \in Pixels :
            final_map[i] # Points(nodata_val)
                => /\ 0 <= final_map[i]
                   /\ final_map[i] <= 100 * (TargetSum + Tolerance)

\* The layer of every weighted known factor is at its best clip bound at
\* pixel i: at or above max_val, or at min_val for an inverted factor.
AtBest(i) ==
    \A k \in Contributing :
        IF FactorSpec[k].invert
        THEN rasters[FactorSpec[k].layer][i] = FactorSpec[k].min_val
        ELSE rasters[FactorSpec[k].layer][i] >= FactorSpec[k].max_val

\* x is 100 points, up to the 0.01 that admission tolerates on the weight sum.
Is100(x) == Abs(x - Points(100)) <= 100 * Tolerance

\* C21: in the finished score array of an admitted job, a pixel that is not
\* excluded and at which every weighted factor is at its best clip bound scores
\* 100; on a grid of such pixels mean_suitability is 100 and excluded_pixels 0.
C21_BestPixelScores100 ==
    epc = "done" =>
        /\ \A i \in Pixels :
              (AtBest(i) /\ ~constraint_mask[i]) => Is100(final_map[i])
        /\ (\A i \in Pixels : AtBest(i) /\ ~constraint_mask[i])
              => /\ Is100(statistics.mean_suitability)
                 /\ statistics.excluded_pixels = 0

\* Positions of the engine at which normalized_layers is computed.
Normalized == {"overlay", "apply", "statistics", "done", "complete"}

\* The score the slope factor gives a slope of d degrees: 100 at 0, 0 from 10
\* on, 10 points less per degree in between.
SlopeScore(d) == IF d <= 0 THEN 100 ELSE IF d >= 10 THEN 0 ELSE 100 - 10 * d

\* C22: every inverted factor is normalized to 100 at or below its lower clip
\* bound and to 0 at or above its upper clip bound; the slope layer is
\* normalized linearly in between (slope 5 gives 50), and with the slope
\* weight at 100 that value is the score of every pixel that is not excluded.
C22_InvertedNormalization ==
    /\ epc \in Normalized =>
          \A k \in DOMAIN normalized_layers : \A i \in Pixels :
              FactorSpec[k].invert =>
                  LET x == rasters[FactorSpec[k].layer][i]
                  IN  /\ x <= FactorSpec[k].min_val
                          => normalized_layers[k][i] = 100
                      /\ x >= FactorSpec[k].max_val
                          => normalized_layers[k][i] = 0
                      /\ k = "slope"
                          => normalized_layers[k][i] = SlopeScore(x)
    /\ (epc = "done" /\ ejob.weights_json = [slope |-> 20000]) =>
          \A i \in Pixels :
              ~constraint_mask[i]
                  => final_map[i] = Points(SlopeScore(rasters.slope_data[i]))

\* A finished job with slope weight 100 and a pixel of slope 5 scoring 50 next
\* to a pixel of slope 10 or more scoring 0.
C22_Witness ==
    /\ epc = "done"
    /\ ejob.weights_json = [slope |-> 20000]
    /\ \E i, k \in Pixels :
          /\ rasters.slope_data[i] = 5
          /\ final_map[i] = Points(50)
          /\ rasters.slope_data[k] >= 10
          /\ final_map[k] = 0

\* The numeric statistics are all 0.
StatisticsZeroed ==
    /\ statistics.valid_pixels = 0
    /\ statistics.mean_suitability = 0
    /\ statistics.max_suitability = 0
    /\ statistics.min_suitability = 0
    /\ statistics.std_suitability = 0

\* C23: a job whose AOI lies outside the coverage of the source rasters is not
\* committed FAILED; it is committed COMPLETE with every pixel of the score
\* array no-data and the numeric statistics 0.
C23_OutOfCoverageCompletes ==
    (epc # "idle" /\ ~lake.overlaps) =>
        /\ ejob.status # FAILED
        /\ epc = "complete" =>
              /\ ejob.status = COMPLETE
              /\ \A i \in Pixels : final_map[i] = Points(nodata_val)
              /\ StatisticsZeroed

\* No pixel of the score array holds a score.
NoValidPixel == \A i \in Pixels : final_map[i] = Points(nodata_val)

\* C24: when every pixel of the finished score array is no-data, the statistics
\* report valid_pixels = 0 and mean, max, min and std 0, and the job is
\* committed COMPLETE.
C24_NoValidPixelZeroStatistics ==
    (epc \in {"done", "complete"} /\ NoValidPixel) =>
        /\ StatisticsZeroed
        /\ statistics.total_pixels = GridPixels
        /\ ejob.status # FAILED
        /\ epc = "complete" => ejob.status = COMPLETE

\* A job committed COMPLETE whose pixels are all excluded.
C24_Witness ==
    /\ epc = "complete"
    /\ ejob.status = COMPLETE
    /\ \A i \in Pixels : constraint_mask[i]
    /\ NoValidPixel
    /\ statistics.excluded_pixels = GridPixels

\* The clipped layer each constraint of the closed set is evaluated on.
ConstraintLayer ==
    [slope_gt |-> "slope_data", lulc_exclude |-> "lulc_data",
     grid_dist_gt |-> "grid_dist_data", road_dist_gt |-> "road_dist_data"]

\* Positions of the engine at which constraint_mask is computed.
Masked == {"normalize", "overlay", "apply", "statistics", "done", "complete"}

\* C25: a pixel that is no-data in the layer of a declared slope_gt,
\* grid_dist_gt or lulc_exclude constraint is TRUE in the exclusion mask.
C25_NoDataConstraintInputExcluded ==
    epc \in Masked =>
        \A i \in Pixels :
            (\E c \in DOMAIN ejob.constraints_json
                        \cap {"slope_gt", "grid_dist_gt", "lulc_exclude"} :
                 rasters[ConstraintLayer[c]][i] = nodata_val)
                => constraint_mask[i]

NeededLayers ==
    {"ghi_data"}
        \cup {FactorSpec[k].layer : k \in {x \in Contributing :
                                           ejob.weights_json[x] # 0}}
        \cup {ConstraintLayer[c] : c \in DOMAIN ejob.constraints_json}

\* C27: the layers the job has read from the data lake are among the layers it
\* needs.
C27_OnlyNeededLayersFetched ==
    epc \notin {"idle", "clip"} => DOMAIN rasters \subseteq NeededLayers

\* C29: in the statistics of a finished job, valid_pixels + excluded_pixels =
\* total_pixels, with excluded_pixels the number of TRUE pixels of the mask and
\* valid_pixels the number of pixels of the score array different from -9999.
C29_PixelCountsAddUp ==
    epc \in {"done", "complete"} =>
        /\ statistics.excluded_pixels =
              Cardinality({i \in Pixels : constraint_mask[i]})
        /\ statistics.valid_pixels =
              Cardinality({i \in Pixels : final_map[i] # Points(nodata_val)})
        /\ statistics.valid_pixels + statistics.excluded_pixels
              = statistics.total_pixels

\* C28: a row is COMPLETE only if the result object of its job has been
\* uploaded, and when the handler of a failed upload finishes and the row still
\* exists, the row is FAILED and has no result_url.
C28_UploadBeforeComplete ==
    /\ [](\A j \in DOMAIN jobs : jobs[j].status = COMPLETE => j \in uploaded)
    /\ [][\A w \in Workers :
            (/\ pc[w] = "except"
             /\ exc[w] = "write failed"
             /\ pc'[w] = "idle"
             /\ task[w] \in DOMAIN jobs')
                => /\ jobs'[task[w]].status = FAILED
                   /\ jobs'[task[w]].result_url = NULL]_vars

\* C30: no two rows of areas_of_interest have the same project and name.
C30_OneAoiPerName ==
    \A a, b \in DOMAIN aois :
        (aois[a].project_id = aois[b].project_id /\ aois[a].name = aois[b].name)
            => a = b

====
